---- MODULE Spec2Model ----
(***************************************************************************)
(* A model of the resumable video pipeline of src-tauri/src/lib.rs:        *)
(* the vault store (vault.toml), the item directories, and runs of         *)
(* process_video_pipeline with its three stage adapters.                   *)
(*                                                                         *)
(* Option<T> is modelled as a sequence of length at most one:              *)
(* None = <<>>, Some(x) = <<x>>.  A String is a sequence of one-character  *)
(* strings where the code looks inside it (transcripts, summaries,         *)
(* timestamps) and an opaque TLA+ string otherwise.  A path inside an item *)
(* directory is the pair <<video_id, file name>>.                          *)
(***************************************************************************)
EXTENDS Naturals, Sequences, FiniteSets, TLC

\* ------------------------------------------------------------------ bounds
\* Number of pipeline invocations explored.
MaxRuns == 2
\* Number of seconds the wall clock advances during the exploration.
MaxTicks == 1
\* The wall clock's first reading (seconds since the epoch); the next reading
\* has one more decimal digit.
Epoch == 9

\* ------------------------------------------------------------ value domains
Urls == {"u1", "u2"}
Ids == {"id1", "id2"}
AudioFiles == {"a.wav"}
Titles == {"t"}
ApiKeys == {<<>>, <<"k">>}
\* What whisper may leave in the .txt file, before trimming.
RawTranscripts == {<<" ">>, <<"a", ".", " ", "b", " ">>}
\* What the remote chat API may answer in choices[0].message.content.
RemoteSummaries == {<<"r">>}

None == <<>>
Some(x) == <<x>>
IsSome(o) == o # <<>>
IsNone(o) == o = <<>>

\* ------------------------------------------------------------- data model
RequiredKeys == {"id", "url", "downloaded", "transcribed", "summarized",
                 "created_at", "updated_at"}
OptionalKeys == {"title", "audio_file", "transcript_file",
                 "transcript_content", "summary_content"}

\* generate_video_id: the first 16 hex digits of SHA-256(url).  The digest is
\* not computed; it is a fixed, total function of the URL, and the URLs of
\* the model have different digests.
generate_video_id(url) ==
    CASE url = "u1" -> "id1"
      [] OTHER      -> "id2"

\* u64::to_string: the decimal digits of n, most significant first.
DigitChar(d) ==
    CASE d = 0 -> "0" [] d = 1 -> "1" [] d = 2 -> "2" [] d = 3 -> "3"
      [] d = 4 -> "4" [] d = 5 -> "5" [] d = 6 -> "6" [] d = 7 -> "7"
      [] d = 8 -> "8" [] OTHER -> "9"

RECURSIVE to_string(_)
to_string(n) ==
    IF n < 10 THEN <<DigitChar(n)>>
    ELSE Append(to_string(n \div 10), DigitChar(n % 10))

\* get_current_timestamp at wall-clock reading now.
get_current_timestamp(now) == to_string(now)

\* The fresh record of process_video_pipeline, lines 135-148.
NewRecord(id, url, timestamp) ==
    [id |-> id, url |-> url, title |-> None,
     downloaded |-> FALSE, transcribed |-> FALSE, summarized |-> FALSE,
     audio_file |-> None, transcript_file |-> None,
     transcript_content |-> None, summary_content |-> None,
     created_at |-> timestamp, updated_at |-> timestamp]

\* Vault { videos: HashMap::new() }
EmptyVideos == [i \in {} |-> None]

\* vault.videos.get(&video_id).cloned().unwrap_or_else(fresh record)
GetOrNew(videos, id, url, timestamp) ==
    IF id \in DOMAIN videos THEN videos[id] ELSE NewRecord(id, url, timestamp)

\* Fault: the record is not put into the vault.
Insert_Nothing(videos, id, rec) == videos

\* vault.videos.insert(video_id, record)
Insert(videos, id, rec) ==
    [i \in (DOMAIN videos) \cup {id} |-> IF i = id THEN rec ELSE videos[i]]

\* ------------------------------------------------------------ vault store
\* The file vault.toml: absent, present but not parsable as a Vault (this
\* includes the empty file: the key `videos` is required), or the TOML text
\* of a vault.  TOML has no null: a None field is written by leaving its key
\* out, and a key that is missing is read back as None.
AbsentStore == [kind |-> "absent", videos |-> EmptyVideos]
CorruptStore == [kind |-> "corrupt", videos |-> EmptyVideos]

\* Fault: an optional field holding the empty string is left out like None.
SerializeRecord_SkipsEmpty(rec) ==
    [k \in RequiredKeys \cup
            {o \in OptionalKeys :
                /\ IsSome(rec[o])
                /\ o \in {"transcript_content", "summary_content"} => Len(rec[o][1]) > 0} |->
        IF k \in OptionalKeys THEN rec[k][1] ELSE rec[k]]

SerializeRecord(rec) ==
    [k \in RequiredKeys \cup {o \in OptionalKeys : IsSome(rec[o])} |->
        IF k \in OptionalKeys THEN rec[k][1] ELSE rec[k]]

DeserializeRecord(t) ==
    [k \in RequiredKeys \cup OptionalKeys |->
        IF k \in OptionalKeys
        THEN (IF k \in DOMAIN t THEN Some(t[k]) ELSE None)
        ELSE t[k]]

\* toml::to_string_pretty(vault)
Serialize(videos) ==
    [kind |-> "toml", videos |-> [i \in DOMAIN videos |-> SerializeRecord(videos[i])]]

\* Fault: a store file that cannot be parsed is read as an empty vault.
load_vault_CorruptIsEmpty(st) ==
    IF st.kind = "toml"
    THEN [ok |-> TRUE,
          videos |-> [i \in DOMAIN st.videos |-> DeserializeRecord(st.videos[i])]]
    ELSE [ok |-> TRUE, videos |-> EmptyVideos]

\* load_vault, lines 63-82.
load_vault(st) ==
    IF st.kind = "absent" THEN [ok |-> TRUE, videos |-> EmptyVideos]
    ELSE IF st.kind = "toml"
              /\ \A i \in DOMAIN st.videos : RequiredKeys \subseteq DOMAIN st.videos[i]
         THEN [ok |-> TRUE,
               videos |-> [i \in DOMAIN st.videos |-> DeserializeRecord(st.videos[i])]]
         ELSE [ok |-> FALSE, videos |-> EmptyVideos]

\* std::fs::write(path, content) is File::create (which truncates the file)
\* followed by write_all: when the write is cut short, by an I/O error or by
\* the death of the process, the file is left truncated.
TruncatedStore == CorruptStore

\* Fault: save_vault reports success without writing the file.
save_vault_NoWrite(st, videos) == {[ok |-> TRUE, store |-> st]}

\* save_vault, lines 84-94: the possible results and the store each leaves.
\*   written       both steps succeed;
\*   failed early  create_dir_all, the serializer or the open fails: the file
\*                 is as it was;
\*   failed late   the write fails after the truncation.
save_vault(st, videos) ==
    {[ok |-> TRUE, store |-> Serialize(videos)],
     [ok |-> FALSE, store |-> st],
     [ok |-> FALSE, store |-> TruncatedStore]}

\* What the death of the process inside save_vault leaves on disk.
InterruptedSave(st) == {st, TruncatedStore}

\* ------------------------------------------------------------ text helpers
IsSpace(c) == c = " "

\* str::trim on a character sequence.
RECURSIVE TrimStart(_)
TrimStart(s) ==
    IF s # <<>> /\ IsSpace(Head(s)) THEN TrimStart(Tail(s)) ELSE s

RECURSIVE TrimEnd(_)
TrimEnd(s) ==
    IF s # <<>> /\ IsSpace(s[Len(s)]) THEN TrimEnd(SubSeq(s, 1, Len(s) - 1)) ELSE s

Trim(s) == TrimEnd(TrimStart(s))

\* transcript.split_whitespace().count(): the number of maximal runs of
\* characters that are not white space.
RECURSIVE CountWords(_, _)
CountWords(s, inWord) ==
    IF s = <<>> THEN 0
    ELSE IF IsSpace(Head(s)) THEN CountWords(Tail(s), FALSE)
    ELSE (IF inWord THEN 0 ELSE 1) + CountWords(Tail(s), TRUE)

\* transcript.split('.'): the pieces between the dots, empty pieces included.
RECURSIVE SplitDot(_, _)
SplitDot(s, cur) ==
    IF s = <<>> THEN <<cur>>
    ELSE IF Head(s) = "." THEN <<cur>> \o SplitDot(Tail(s), <<>>)
    ELSE SplitDot(Tail(s), Append(cur, Head(s)))

\* .take(n)
Take(seq, n) == SubSeq(seq, 1, IF Len(seq) < n THEN Len(seq) ELSE n)

\* .filter(|s| !s.trim().is_empty()).map(|s| s.trim())
RECURSIVE TrimmedNonEmpty(_)
TrimmedNonEmpty(pieces) ==
    IF pieces = <<>> THEN <<>>
    ELSE (IF Trim(Head(pieces)) = <<>> THEN <<>> ELSE <<Trim(Head(pieces))>>)
         \o TrimmedNonEmpty(Tail(pieces))

\* .join(sep)
RECURSIVE Join(_, _)
Join(pieces, sep) ==
    IF pieces = <<>> THEN <<>>
    ELSE IF Len(pieces) = 1 THEN pieces[1]
    ELSE pieces[1] \o sep \o Join(Tail(pieces), sep)

\* The number of sentences the local summary quotes (.take(3)).
SummarySentences == 3

\* Fault: the local summary is the transcript itself, empty for an empty one.
generate_simple_summary_Echo(transcript) == transcript

\* generate_simple_summary, lines 473-495.  The fixed texts of the format
\* string are single tokens.
generate_simple_summary(transcript) ==
    LET total_words == CountWords(transcript, FALSE)
        summary_sentences ==
            Join(TrimmedNonEmpty(Take(SplitDot(transcript, <<>>), SummarySentences)),
                 <<"[ideographic full stop]">>)
    IN  IF total_words = 0 THEN <<"[transcript is empty]">>
        ELSE <<"[word count: ">> \o to_string(total_words) \o <<"][outline: ">>
             \o (IF summary_sentences = <<>> THEN <<"[transcript is short]">>
                 ELSE summary_sentences)
             \o <<"][hint: configure an API key]">>

\* --------------------------------------------------------- stage adapters
\* find_audio_file, lines 497-518: the first file of the directory, in the
\* directory's iteration order, with a recognized audio extension.  Every
\* file name of AudioFiles has one; the iteration order is not determined,
\* so any of them may be the result.  (read_dir of a directory that exists
\* is taken to succeed.)
\* Fault: a path is returned although the directory holds no audio file.
find_audio_file_Invents(exists, id, fs) ==
    {Some(<<id, f>>) : f \in fs \cup AudioFiles}

find_audio_file(exists, id, fs) ==
    IF ~exists \/ fs = {} THEN {None}
    ELSE {Some(<<id, f>>) : f \in fs}

\* Fault: a success exit of the downloader is accepted although no audio
\* file is found.
DownloadOutcomes_AcceptsMissing(id, exists, fs) ==
    UNION {
        {[ok |-> TRUE,
          kind |-> IF IsSome(found) THEN "downloaded" ELSE "audio_missing",
          audio_file |-> found,
          title |-> Some(t),
          files |-> fs \cup w] :
            found \in find_audio_file(exists, id, fs \cup w), t \in Titles}
        : w \in SUBSET AudioFiles}

\* download_video_to_dir, lines 247-321: the outcomes of the three yt-dlp
\* invocations.  A run of the downloader may leave any files in the item
\* directory; after a success exit the audio file is looked up in it.
DownloadOutcomes(id, exists, fs) ==
    {[ok |-> FALSE, kind |-> k, audio_file |-> None, title |-> None, files |-> fs] :
        k \in {"tool_unavailable", "info_failed"}}
    \cup
    {[ok |-> FALSE, kind |-> "download_failed", audio_file |-> None, title |-> None,
      files |-> fs \cup w] : w \in SUBSET AudioFiles}
    \cup
    UNION {
        {[ok |-> IsSome(found),
          kind |-> IF IsSome(found) THEN "downloaded" ELSE "audio_missing",
          audio_file |-> found,
          title |-> IF IsSome(found) THEN Some(t) ELSE None,
          files |-> fs \cup w] :
            found \in find_audio_file(exists, id, fs \cup w), t \in Titles}
        : w \in SUBSET AudioFiles}

\* transcribe_audio_file, lines 334-366: whisper fails, or leaves no text
\* file, or the text file's trimmed content is returned.  Whisper succeeds
\* only on an audio file that exists.
TranscribeOutcomes(audio_path, present) ==
    {[ok |-> FALSE, kind |-> k, content |-> <<>>] :
        k \in {"whisper_failed", "transcript_missing"}}
    \cup
    (IF present
     THEN {[ok |-> TRUE, kind |-> "transcribed", content |-> Trim(raw)] :
              raw \in RawTranscripts}
     ELSE {})

\* Fault: a network error of the remote call is returned as an error, with
\* no fallback to the local summary.
SummarizeOutcomes_NoFallback(transcript, api_key) ==
    IF IsNone(api_key)
    THEN {[ok |-> TRUE, kind |-> "no_credentials",
           summary |-> generate_simple_summary(transcript)]}
    ELSE {[ok |-> FALSE, kind |-> k, summary |-> <<>>] :
             k \in {"network_error", "http_status", "malformed_response",
                    "empty_choices"}}
         \cup
         {[ok |-> TRUE, kind |-> "remote", summary |-> c] : c \in RemoteSummaries}

\* summarize_transcript_content, lines 414-471.
SummarizeOutcomes(transcript, api_key) ==
    IF IsNone(api_key)
    THEN {[ok |-> TRUE, kind |-> "no_credentials",
           summary |-> generate_simple_summary(transcript)]}
    ELSE {[ok |-> TRUE, kind |-> "network_error",
           summary |-> generate_simple_summary(transcript)]}
         \cup
         {[ok |-> FALSE, kind |-> k, summary |-> <<>>] :
             k \in {"http_status", "malformed_response", "empty_choices"}}
         \cup
         {[ok |-> TRUE, kind |-> "remote", summary |-> c] : c \in RemoteSummaries}

\* ------------------------------------------------------------------ state
Procs == {1, 2}
\* The callers of a specification in which runs do not overlap.
SeqProcs == {1}

VARIABLES
    store,      \* the file <vault>/vault.toml
    dirs,       \* the ids whose item directory <vault>/<id> exists
    files,      \* files[id]: the audio files in the item directory of id
    clock,      \* the wall clock, in seconds
    runs,       \* the number of runs started so far
    origin,     \* how the store began: "absent", "corrupt" or "given"
    pc,         \* pc[p]: where run p stands in process_video_pipeline
    args,       \* args[p]: the run's url and api_key
    vault,      \* vault[p]: the run's `vault.videos`
    record,     \* record[p]: the run's `record`
    hist        \* hist[p]: what run p has done so far (history, not program state)

vars == <<store, dirs, files, clock, runs, origin, pc, args, vault, record, hist>>

Stages == {"download", "transcribe", "summarize"}
SavePcs == {"save_repair", "save_download", "save_transcribe", "save_summarize"}
RunningPcs == {"repair", "download", "transcribe", "summarize", "ret"} \cup SavePcs

NoRecord == NewRecord("none", "none", <<>>)
NoArgs == [url |-> "none", api_key |-> None]

\* hist[p] at the start of a run.
\*   loaded     the record the run started from (looked up or fresh)
\*   known      whether that record was in the loaded vault
\*   store0, dirs0   the store and the directories when the run started
\*   inv        how often each adapter has been invoked and has returned
\*   completed  the stages whose save has completed in this run
\*   saves      the number of save_vault calls that returned Ok
\*   repaired   the audio file the repair step found
\*   heard      the audio path handed to Transcribe
\*   kind       the outcome of the last adapter call
\*   result     "none" while running, then how the run ended
\*   returned   the record a successful run returns
NoHist ==
    [loaded |-> NoRecord, known |-> FALSE, store0 |-> AbsentStore, dirs0 |-> {},
     inv |-> [s \in Stages |-> 0], completed |-> {}, saves |-> 0,
     repaired |-> None, heard |-> None, kind |-> "none",
     result |-> "none", returned |-> None]

\* The records a store may hold before the first run: left by earlier runs
\* or edited by hand (lines 8-22 put no constraint between the fields).  Any
\* combination of the flags; a transcript or a summary is present exactly
\* with its flag, the audio path may be missing although downloaded is set.
AnyInitRecords ==
    {[NewRecord("id1", "u1", get_current_timestamp(Epoch)) EXCEPT
        !.downloaded = d, !.transcribed = t, !.summarized = s,
        !.audio_file = a,
        !.transcript_content = IF t THEN Some(<<"a">>) ELSE None,
        !.summary_content = IF s THEN Some(<<"r">>) ELSE None] :
     d \in BOOLEAN, t \in BOOLEAN, s \in BOOLEAN,
     a \in {None, Some(<<"id1", "a.wav">>)}}

InitRecords == {r \in AnyInitRecords : r.downloaded \/ IsNone(r.audio_file)}

InitStores ==
    {AbsentStore, CorruptStore}
    \cup {Serialize(Insert(EmptyVideos, "id1", r)) : r \in InitRecords}

Init ==
    /\ store \in InitStores
    /\ files \in {f \in [Ids -> SUBSET AudioFiles] : f["id2"] = {}}
    /\ dirs = {i \in Ids : files[i] # {}}
    /\ clock = Epoch
    /\ runs = 0
    /\ origin = (IF store.kind = "toml" THEN "given" ELSE store.kind)
    /\ pc = [p \in Procs |-> "idle"]
    /\ args = [p \in Procs |-> NoArgs]
    /\ vault = [p \in Procs |-> EmptyVideos]
    /\ record = [p \in Procs |-> NoRecord]
    /\ hist = [p \in Procs |-> NoHist]

\* ------------------------------------------------- process_video_pipeline
\* SystemTime::now() of line 98: the clock is observed only where it is
\* read, so time passes at the readings; no reading is earlier than the one
\* before it.
Readings == clock .. (Epoch + MaxTicks)

video_id(p) == generate_video_id(args[p].url)

\* The stage guards of lines 157, 168, 190 and 215.
\* Faults: the repair step runs for every downloaded record; never runs.
NeedsRepair_WheneverDownloaded(rec) == rec.downloaded
NeedsRepair_Never(rec) == FALSE
NeedsRepair(rec) == rec.downloaded /\ IsNone(rec.audio_file)
\* Fault: the download step ignores the flag.
NeedsDownload_Always(rec) == TRUE
NeedsDownload(rec) == ~rec.downloaded
NeedsTranscribe(rec) == ~rec.transcribed
\* Fault: the summarize step is always skipped.
NeedsSummarize_Never(rec) == FALSE
NeedsSummarize(rec) == ~rec.summarized /\ IsSome(rec.transcript_content)

\* The record after each step, lines 159-160, 172-175, 195-197, 224-226.
Repaired(rec, audio_file, now) ==
    [rec EXCEPT !.audio_file = audio_file,
                !.updated_at = get_current_timestamp(now)]

\* Fault: the download step sets the flag of the next stage.
Downloaded_MarksTranscribed(rec, audio_file, title, now) ==
    [rec EXCEPT !.transcribed = TRUE, !.audio_file = audio_file, !.title = title,
                !.updated_at = get_current_timestamp(now)]

Downloaded(rec, audio_file, title, now) ==
    [rec EXCEPT !.downloaded = TRUE, !.audio_file = audio_file, !.title = title,
                !.updated_at = get_current_timestamp(now)]

\* Fault: the transcribe step sets the flag and drops the transcript.
Transcribed_NoContent(rec, content, now) ==
    [rec EXCEPT !.transcribed = TRUE,
                !.updated_at = get_current_timestamp(now)]

Transcribed(rec, content, now) ==
    [rec EXCEPT !.transcribed = TRUE, !.transcript_content = Some(content),
                !.updated_at = get_current_timestamp(now)]

\* Fault: the summarize step leaves updated_at as it was.
Summarized_KeepsStamp(rec, summary, now) ==
    [rec EXCEPT !.summarized = TRUE, !.summary_content = Some(summary)]

Summarized(rec, summary, now) ==
    [rec EXCEPT !.summarized = TRUE, !.summary_content = Some(summary),
                !.updated_at = get_current_timestamp(now)]

\* Where the run goes after a save that returned Ok.
AfterSave(at) ==
    CASE at = "save_repair"     -> "download"
      [] at = "save_download"   -> "transcribe"
      [] at = "save_transcribe" -> "summarize"
      [] OTHER                  -> "ret"

\* The stage a save belongs to ("repair" is no stage).
StageOf(at) ==
    CASE at = "save_download"   -> {"download"}
      [] at = "save_transcribe" -> {"transcribe"}
      [] at = "save_summarize"  -> {"summarize"}
      [] OTHER                  -> {}

\* The run ends: `return Err(..)`, `?`, or the final Ok.
Ends(p, how) ==
    /\ pc' = [pc EXCEPT ![p] = "done"]
    /\ hist' = [hist EXCEPT ![p].result = how]

EndsAfter(p, how, h) ==
    /\ pc' = [pc EXCEPT ![p] = "done"]
    /\ hist' = [hist EXCEPT ![p] = [h EXCEPT !.result = how]]

\* Fault: the adapter's failure is swallowed and the run goes on.
StageFailed_Continues(p, how, h) ==
    /\ pc' = [pc EXCEPT ![p] = CASE how = "err_download"   -> "transcribe"
                                  [] how = "err_transcribe" -> "summarize"
                                  [] OTHER                  -> "ret"]
    /\ hist' = [hist EXCEPT ![p] = h]
    /\ UNCHANGED <<record, vault, clock>>

\* `Err(e) => return Err(..)` of lines 183, 205 and 234: the adapter's
\* failure ends the run; nothing is changed and nothing is saved.
StageFailed(p, how, h) ==
    /\ EndsAfter(p, how, h)
    /\ UNCHANGED <<record, vault, clock>>

\* Lines 120-152: load the vault, look the record up, create the item directory.
Begin(p, url, api_key, now) ==
    /\ pc[p] \in {"idle", "done"}
    /\ args' = [args EXCEPT ![p] = [url |-> url, api_key |-> api_key]]
    /\ LET id == generate_video_id(url)
           ld == load_vault(store)
           rec == GetOrNew(ld.videos, id, url, get_current_timestamp(now))
           h == [NoHist EXCEPT !.store0 = store, !.dirs0 = dirs]
       IN  IF ~ld.ok
           THEN /\ EndsAfter(p, "err_load", h)
                /\ vault' = [vault EXCEPT ![p] = EmptyVideos]
                /\ record' = [record EXCEPT ![p] = NoRecord]
                /\ dirs' = dirs
                /\ clock' = clock
           ELSE /\ clock' = now
                /\ vault' = [vault EXCEPT ![p] = ld.videos]
                /\ record' = [record EXCEPT ![p] = rec]
                /\ \/ /\ dirs' = dirs \cup {id}
                      /\ pc' = [pc EXCEPT ![p] = "repair"]
                      /\ hist' = [hist EXCEPT ![p] =
                                    [h EXCEPT !.loaded = rec,
                                              !.known = id \in DOMAIN ld.videos]]
                   \/ /\ dirs' = dirs
                      /\ EndsAfter(p, "err_mkdir",
                                   [h EXCEPT !.loaded = rec,
                                             !.known = id \in DOMAIN ld.videos])
    /\ UNCHANGED <<store, files, origin>>

\* An invocation of the command, counted.
StartRun(p, url, api_key, now) ==
    /\ runs < MaxRuns
    /\ runs' = runs + 1
    /\ Begin(p, url, api_key, now)

\* Lines 157-165, up to the call of save_vault.
Repair(p) ==
    /\ pc[p] = "repair"
    /\ IF NeedsRepair(record[p])
       THEN \E found \in find_audio_file(video_id(p) \in dirs, video_id(p),
                                         files[video_id(p)]) :
              IF IsSome(found)
              THEN \E now \in Readings :
                   LET rec == Repaired(record[p], found, now)
                   IN  /\ clock' = now
                       /\ record' = [record EXCEPT ![p] = rec]
                       /\ vault' = [vault EXCEPT ![p] = Insert(vault[p], video_id(p), rec)]
                       /\ hist' = [hist EXCEPT ![p].repaired = found]
                       /\ pc' = [pc EXCEPT ![p] = "save_repair"]
              ELSE /\ pc' = [pc EXCEPT ![p] = "download"]
                   /\ UNCHANGED <<record, vault, hist, clock>>
       ELSE /\ pc' = [pc EXCEPT ![p] = "download"]
            /\ UNCHANGED <<record, vault, hist, clock>>
    /\ UNCHANGED <<store, dirs, files, runs, origin, args>>

\* save_vault(&vault_path, &vault)? at lines 162, 179, 201 and 230.
Save(p) ==
    /\ pc[p] \in SavePcs
    /\ \E o \in save_vault(store, vault[p]) :
          /\ store' = o.store
          /\ IF o.ok
             THEN /\ pc' = [pc EXCEPT ![p] = AfterSave(pc[p])]
                  /\ hist' = [hist EXCEPT
                                ![p].completed = @ \cup StageOf(pc[p]),
                                ![p].saves = @ + 1]
             ELSE Ends(p, "err_save")
    /\ UNCHANGED <<dirs, files, clock, runs, origin, args, vault, record>>

\* Step 1, lines 168-187, up to the call of save_vault.
Download(p) ==
    /\ pc[p] = "download"
    /\ IF NeedsDownload(record[p])
       THEN \E o \in DownloadOutcomes(video_id(p), video_id(p) \in dirs,
                                      files[video_id(p)]) :
              /\ files' = [files EXCEPT ![video_id(p)] = o.files]
              /\ IF o.ok
                 THEN \E now \in Readings :
                      LET rec == Downloaded(record[p], o.audio_file, o.title, now)
                      IN  /\ clock' = now
                          /\ record' = [record EXCEPT ![p] = rec]
                          /\ vault' = [vault EXCEPT ![p] =
                                         Insert(vault[p], video_id(p), rec)]
                          /\ pc' = [pc EXCEPT ![p] = "save_download"]
                          /\ hist' = [hist EXCEPT ![p].inv["download"] = @ + 1,
                                                  ![p].kind = o.kind]
                 ELSE StageFailed(p, "err_download",
                                  [hist[p] EXCEPT !.inv["download"] = @ + 1,
                                                  !.kind = o.kind])
       ELSE /\ pc' = [pc EXCEPT ![p] = "transcribe"]
            /\ UNCHANGED <<files, record, vault, hist, clock>>
    /\ UNCHANGED <<store, dirs, runs, origin, args>>

\* Step 2, lines 190-212, up to the call of save_vault.
Transcribe(p) ==
    /\ pc[p] = "transcribe"
    /\ IF NeedsTranscribe(record[p])
       THEN IF IsSome(record[p].audio_file)
            THEN LET path == record[p].audio_file[1]
                 IN  \E o \in TranscribeOutcomes(path, path[2] \in files[path[1]]) :
                       IF o.ok
                       THEN \E now \in Readings :
                            LET rec == Transcribed(record[p], o.content, now)
                            IN  /\ clock' = now
                                /\ record' = [record EXCEPT ![p] = rec]
                                /\ vault' = [vault EXCEPT ![p] =
                                               Insert(vault[p], video_id(p), rec)]
                                /\ pc' = [pc EXCEPT ![p] = "save_transcribe"]
                                /\ hist' = [hist EXCEPT
                                              ![p].inv["transcribe"] = @ + 1,
                                              ![p].heard = Some(path),
                                              ![p].kind = o.kind]
                       ELSE StageFailed(p, "err_transcribe",
                                        [hist[p] EXCEPT !.inv["transcribe"] = @ + 1,
                                                        !.heard = Some(path),
                                                        !.kind = o.kind])
            ELSE /\ Ends(p, "err_no_audio")
                 /\ UNCHANGED <<record, vault, clock>>
       ELSE /\ pc' = [pc EXCEPT ![p] = "summarize"]
            /\ UNCHANGED <<record, vault, hist, clock>>
    /\ UNCHANGED <<store, dirs, files, runs, origin, args>>

\* Step 3, lines 215-238, up to the call of save_vault.
Summarize(p) ==
    /\ pc[p] = "summarize"
    /\ IF NeedsSummarize(record[p])
       THEN \E o \in SummarizeOutcomes(record[p].transcript_content[1],
                                       args[p].api_key) :
              IF o.ok
              THEN \E now \in Readings :
                   LET rec == Summarized(record[p], o.summary, now)
                   IN  /\ clock' = now
                       /\ record' = [record EXCEPT ![p] = rec]
                       /\ vault' = [vault EXCEPT ![p] = Insert(vault[p], video_id(p), rec)]
                       /\ pc' = [pc EXCEPT ![p] = "save_summarize"]
                       /\ hist' = [hist EXCEPT ![p].inv["summarize"] = @ + 1,
                                               ![p].kind = o.kind]
              ELSE StageFailed(p, "err_summarize",
                               [hist[p] EXCEPT !.inv["summarize"] = @ + 1,
                                               !.kind = o.kind])
       ELSE /\ pc' = [pc EXCEPT ![p] = "ret"]
            /\ UNCHANGED <<record, vault, hist, clock>>
    /\ UNCHANGED <<store, dirs, files, runs, origin, args>>

\* Lines 241-244: the record is returned.
Return(p) ==
    /\ pc[p] = "ret"
    /\ EndsAfter(p, "ok", [hist[p] EXCEPT !.returned = Some(record[p])])
    /\ UNCHANGED <<store, dirs, files, clock, runs, origin, args, vault, record>>

\* The process dies (killed, power loss) at any point of a run.  Inside
\* save_vault the file may be left truncated; inside the downloader the
\* files written so far stay in the item directory.
Crash(p) ==
    /\ pc[p] \in RunningPcs
    /\ Ends(p, "crashed")
    /\ store' \in (IF pc[p] \in SavePcs THEN InterruptedSave(store) ELSE {store})
    /\ files' \in (IF pc[p] = "download" /\ NeedsDownload(record[p])
                   THEN {[files EXCEPT ![video_id(p)] = @ \cup w] :
                            w \in SUBSET AudioFiles}
                   ELSE {files})
    /\ UNCHANGED <<dirs, clock, runs, origin, args, vault, record>>

Step(p) ==
    \/ \E url \in Urls, api_key \in ApiKeys, now \in Readings :
          StartRun(p, url, api_key, now)
    \/ Repair(p)
    \/ Save(p)
    \/ Download(p)
    \/ Transcribe(p)
    \/ Summarize(p)
    \/ Return(p)
    \/ Crash(p)

\* Runs one at a time, as the design requires of its callers.
Next == \E p \in SeqProcs : Step(p)

Spec == Init /\ [][Next]_vars

\* The caller runs the command on one URL again and again, each run after
\* the one before has ended; the process is not killed and every save_vault
\* returns Ok.  The count of the runs stops at MaxRuns.
TheUrl == "u1"

Rerun(p) ==
    /\ runs' = (IF runs < MaxRuns THEN runs + 1 ELSE runs)
    /\ \E api_key \in ApiKeys, now \in Readings : Begin(p, TheUrl, api_key, now)

SaveOk(p) == Save(p) /\ pc'[p] # "done"

LiveStep(p) ==
    \/ Rerun(p)
    \/ Repair(p)
    \/ SaveOk(p)
    \/ Download(p)
    \/ Transcribe(p)
    \/ Summarize(p)
    \/ Return(p)

LiveInit == Init /\ store = AbsentStore

LiveNext == \E p \in SeqProcs : LiveStep(p)

\* Fairness: the caller and the run keep going; the item directory can be
\* created, and each adapter succeeds, if tried often enough.
LiveFairness ==
    \A p \in SeqProcs :
        /\ WF_vars(LiveStep(p))
        /\ SF_vars(Rerun(p) /\ pc'[p] = "repair")
        /\ SF_vars(Download(p) /\ pc'[p] = "save_download")
        /\ SF_vars(Transcribe(p) /\ pc'[p] = "save_transcribe")
        /\ SF_vars(Summarize(p) /\ pc'[p] = "save_summarize")

LiveSpec == LiveInit /\ [][LiveNext]_vars /\ LiveFairness

\* Two callers invoke the command on the same vault root with no lock
\* between them: their steps interleave.
ConcNext == \E p \in Procs : Step(p)

ConcSpec == Init /\ [][ConcNext]_vars

\* ------------------------------------------------------------- properties
FlagOf(rec, s) ==
    CASE s = "download"   -> rec.downloaded
      [] s = "transcribe" -> rec.transcribed
      [] OTHER            -> rec.summarized

FlagKey(s) ==
    CASE s = "download"   -> "downloaded"
      [] s = "transcribe" -> "transcribed"
      [] OTHER            -> "summarized"

\* The store st parses and holds a record for id.
Has(st, id) == st.kind = "toml" /\ id \in DOMAIN st.videos
\* The store st shows the flag of stage s as true for id.
Shows(st, id, s) == Has(st, id) /\ st.videos[id][FlagKey(s)]
\* The record the store holds for id, as load_vault reads it.
StoredRecord(id) == DeserializeRecord(store.videos[id])

\* Run p got past load_vault.
Loaded(p) == pc[p] # "idle" /\ hist[p].result # "err_load"

DownloadFailures == {"tool_unavailable", "info_failed", "download_failed", "audio_missing"}
TranscribeFailures == {"whisper_failed", "transcript_missing"}
SummarizeFailures == {"http_status", "malformed_response", "empty_choices"}

\* New = 0, Downloaded = 1, Transcribed = 2, Summarized = 3.
Rank(rec) ==
    IF rec.summarized THEN 3 ELSE IF rec.transcribed THEN 2
    ELSE IF rec.downloaded THEN 1 ELSE 0

Ordered(rec) ==
    /\ rec.transcribed => rec.downloaded
    /\ rec.summarized => rec.transcribed

\* The rank of id in the store st; an id the store does not hold is New.
StoreRank(st, id) == IF Has(st, id) THEN Rank(DeserializeRecord(st.videos[id])) ELSE 0

\* C1: in one run each adapter is invoked at most once, never for a stage
\* whose flag the loaded record already has, and only when the flag is false
\* in the run's record at that point.
C1_InvokedAtMostOnce ==
    \A p \in Procs, s \in Stages :
        /\ hist[p].inv[s] <= 1
        /\ FlagOf(hist[p].loaded, s) => hist[p].inv[s] = 0

C1_InvokedOnlyWhenFlagFalse ==
    \A p \in Procs, s \in Stages :
        hist'[p].inv[s] > hist[p].inv[s] => ~FlagOf(record[p], s)

C1_AdaptersOncePerRun ==
    []C1_InvokedAtMostOnce /\ [][C1_InvokedOnlyWhenFlagFalse]_vars

\* C1, witness: the second run on a URL whose stored record is downloaded
\* but not transcribed ends well having invoked Transcribe and Summarize and
\* not Download.
C1_Witness ==
    /\ origin = "absent" /\ runs = 2
    /\ hist[1].result = "ok" /\ hist[1].known
    /\ hist[1].loaded.downloaded /\ ~hist[1].loaded.transcribed
    /\ hist[1].inv["download"] = 0
    /\ hist[1].inv["transcribe"] = 1 /\ hist[1].inv["summarize"] = 1

\* C2: between the stages nothing is in progress (the store holds what the
\* run holds: each stage's save is complete before the next adapter is
\* invoked), and after a crash at any point the store shows, for the run's
\* id, exactly the stages saved before: those of the loaded record and those
\* whose save completed in the run.
C2_CrashLeavesTheSavedStages ==
    \A p \in Procs :
        /\ pc[p] \in {"download", "transcribe", "summarize", "ret"} =>
              /\ load_vault(store).ok
              /\ load_vault(store).videos = vault[p]
        /\ Loaded(p) /\ hist[p].result = "crashed" =>
              \A s \in Stages :
                  Shows(store, video_id(p), s)
                      <=> (FlagOf(hist[p].loaded, s) \/ s \in hist[p].completed)

C4_StoredFlagsStay ==
    [][\A id \in Ids, s \in Stages : Shows(store, id, s) => Shows(store', id, s)]_vars

\* C5: starting from an absent store, every record a run holds, has in its
\* vault or has saved is New, Downloaded, Transcribed or Summarized, and
\* every change of a run's record or of a stored record leaves it in its
\* state or moves it to the next one.
C5_FourStates ==
    origin = "absent" =>
        /\ \A p \in Procs :
              /\ Ordered(record[p])
              /\ \A i \in DOMAIN vault[p] : Ordered(vault[p][i])
        /\ \A i \in Ids : Has(store, i) => Ordered(StoredRecord(i))

C5_NextState ==
    origin = "absent" =>
        /\ \A p \in Procs :
              pc[p] \in RunningPcs =>
                  Rank(record'[p]) \in {Rank(record[p]), Rank(record[p]) + 1}
        /\ \A i \in Ids :
              Has(store', i) =>
                  StoreRank(store', i) \in {StoreRank(store, i), StoreRank(store, i) + 1}

C5_StatesInOrder == []C5_FourStates /\ [][C5_NextState]_vars

\* C5, witness: from an absent store a record has gone through all four
\* states and is stored as Summarized.
C5_Witness ==
    /\ origin = "absent"
    /\ \E i \in Ids : Has(store, i) /\ Rank(StoredRecord(i)) = 3

\* C6: when the Download adapter has failed, the run has ended with the
\* download error, Transcribe and Summarize were not invoked, and the record
\* (in the run and in the store) is as it was loaded: transcribed and
\* summarized stay false, transcript and summary stay absent.
C6_DownloadFailureIsolated ==
    \A p \in Procs :
        hist[p].kind \in DownloadFailures =>
            /\ pc[p] = "done" /\ hist[p].result = "err_download"
            /\ hist[p].inv["transcribe"] = 0 /\ hist[p].inv["summarize"] = 0
            /\ record[p] = hist[p].loaded
            /\ store = hist[p].store0
            /\ ~hist[p].loaded.transcribed => ~record[p].transcribed
            /\ ~hist[p].loaded.summarized => ~record[p].summarized
            /\ IsNone(hist[p].loaded.transcript_content)
                  => IsNone(record[p].transcript_content)
            /\ IsNone(hist[p].loaded.summary_content)
                  => IsNone(record[p].summary_content)
            /\ origin = "absent" =>
                  /\ ~record[p].transcribed /\ ~record[p].summarized
                  /\ IsNone(record[p].transcript_content)
                  /\ IsNone(record[p].summary_content)

\* C6, witness: a run from an absent store whose download failed.
C6_Witness ==
    /\ origin = "absent"
    /\ hist[1].kind = "download_failed" /\ hist[1].result = "err_download"
    /\ ~record[1].downloaded

\* C7: when an adapter has failed, the run has ended with that stage's
\* error, no later stage was invoked, and the store holds what the run
\* holds: the flags and artifacts of every stage completed before, in this
\* run or in an earlier one.
C7_FailureKeepsCompletedStages ==
    \A p \in Procs :
        hist[p].kind \in DownloadFailures \cup TranscribeFailures \cup SummarizeFailures =>
            /\ pc[p] = "done"
            /\ hist[p].kind \in DownloadFailures =>
                  /\ hist[p].result = "err_download"
                  /\ hist[p].inv["transcribe"] = 0 /\ hist[p].inv["summarize"] = 0
            /\ hist[p].kind \in TranscribeFailures =>
                  /\ hist[p].result = "err_transcribe"
                  /\ hist[p].inv["summarize"] = 0
            /\ hist[p].kind \in SummarizeFailures => hist[p].result = "err_summarize"
            /\ load_vault(store).ok
            /\ load_vault(store).videos = vault[p]
            /\ (hist[p].known \/ hist[p].saves > 0) =>
                  /\ Has(store, video_id(p))
                  /\ StoredRecord(video_id(p)) = record[p]
            /\ \A s \in Stages :
                  (FlagOf(hist[p].loaded, s) \/ s \in hist[p].completed)
                      => Shows(store, video_id(p), s)
            /\ "download" \in hist[p].completed =>
                  /\ IsSome(StoredRecord(video_id(p)).audio_file)
                  /\ IsSome(StoredRecord(video_id(p)).title)
            /\ "transcribe" \in hist[p].completed =>
                  IsSome(StoredRecord(video_id(p)).transcript_content)

\* C7, witness: Download succeeded and was saved, then Transcribe failed:
\* the stored record is downloaded, with audio_file and title, and not
\* transcribed.
C7_Witness ==
    /\ hist[1].kind \in TranscribeFailures
    /\ "download" \in hist[1].completed
    /\ Has(store, video_id(1))
    /\ StoredRecord(video_id(1)).downloaded
    /\ ~StoredRecord(video_id(1)).transcribed
    /\ IsSome(StoredRecord(video_id(1)).audio_file)
    /\ IsSome(StoredRecord(video_id(1)).title)

\* C8: when the downloader exits with success and no audio file is found,
\* the run fails with the download error, downloaded stays false, no save
\* happens and the store file is what it was when the run started.
C8_MissingArtifactLeavesStore ==
    \A p \in Procs :
        hist[p].kind = "audio_missing" =>
            /\ pc[p] = "done" /\ hist[p].result = "err_download"
            /\ ~hist[p].loaded.downloaded /\ ~record[p].downloaded
            /\ hist[p].saves = 0
            /\ store = hist[p].store0
            /\ Has(store, video_id(p)) => ~StoredRecord(video_id(p)).downloaded

\* C8, witness: such a run, on a store that holds another URL's record.
C8_Witness ==
    /\ hist[1].kind = "audio_missing"
    /\ store.kind = "toml" /\ DOMAIN store.videos # {}
    /\ files[video_id(1)] = {}

\* C9: a run that loads a record with all three flags true and audio path,
\* transcript and summary present invokes no adapter, saves nothing, leaves
\* the store as it is and returns the record as it is stored.
Complete(rec) ==
    /\ rec.downloaded /\ rec.transcribed /\ rec.summarized
    /\ IsSome(rec.audio_file)
    /\ IsSome(rec.transcript_content)
    /\ IsSome(rec.summary_content)

C9_CompleteRecordUntouched ==
    \A p \in Procs :
        Loaded(p) /\ hist[p].known /\ Complete(hist[p].loaded) =>
            /\ \A s \in Stages : hist[p].inv[s] = 0
            /\ hist[p].saves = 0
            /\ pc[p] \notin SavePcs
            /\ store = hist[p].store0
            /\ record[p] = hist[p].loaded
            /\ hist[p].result \in {"none", "ok", "crashed", "err_mkdir"}
            /\ hist[p].result = "ok" =>
                  /\ hist[p].returned = Some(hist[p].loaded)
                  /\ hist[p].returned = Some(StoredRecord(video_id(p)))

\* C9, witness: such a run has returned, with audio files in the directory.
C9_Witness ==
    /\ hist[1].result = "ok" /\ hist[1].known /\ Complete(hist[1].loaded)
    /\ files[video_id(1)] # {}

\* C10: a run that loads a record with downloaded true and no audio path,
\* while the item directory holds an audio file, sets audio_file to a file
\* of the directory in the repair step, has saved it before any adapter is
\* invoked, never invokes Download, and goes on to Transcribe with the path
\* found if the record is not transcribed.
RepairCase(p) ==
    /\ Loaded(p) /\ hist[p].result # "err_mkdir"
    /\ hist[p].known
    /\ hist[p].loaded.downloaded /\ IsNone(hist[p].loaded.audio_file)
    /\ files[video_id(p)] # {}

PastRepair(p) ==
    \/ pc[p] \in RunningPcs \ {"repair"}
    \/ hist[p].result \in {"ok", "err_save", "err_download", "err_transcribe",
                           "err_no_audio", "err_summarize"}

C10_RepairFindsAudio ==
    \A p \in Procs :
        RepairCase(p) =>
            /\ hist[p].inv["download"] = 0
            /\ hist[p].result # "err_no_audio"
            /\ PastRepair(p) =>
                  /\ IsSome(hist[p].repaired)
                  /\ hist[p].repaired[1][1] = video_id(p)
                  /\ hist[p].repaired[1][2] \in files[video_id(p)]
                  /\ record[p].audio_file = hist[p].repaired
            /\ hist[p].inv["transcribe"] + hist[p].inv["summarize"] > 0 =>
                  hist[p].saves > 0
            /\ pc[p] \in {"download", "transcribe", "summarize"} =>
                  /\ Has(store, video_id(p))
                  /\ StoredRecord(video_id(p)).audio_file = hist[p].repaired
            /\ hist[p].inv["transcribe"] > 0 => hist[p].heard = hist[p].repaired
            /\ (~hist[p].loaded.transcribed
                  /\ (pc[p] \in {"save_transcribe", "summarize", "save_summarize", "ret"}
                        \/ hist[p].result = "ok"))
                  => hist[p].inv["transcribe"] = 1

\* C10, witness: such a run has repaired the record and transcribed the file
\* found.
C10_Witness ==
    /\ RepairCase(1)
    /\ ~hist[1].loaded.transcribed
    /\ hist[1].inv["transcribe"] = 1
    /\ hist[1].heard = hist[1].repaired
    /\ hist[1].result = "ok"

\* The outcomes of summarize_transcript_content in which the remote API was
\* called (lines 420-469).
RemoteCallKinds ==
    {"network_error", "http_status", "malformed_response", "empty_choices", "remote"}

\* C11: when Summarize is invoked with no api_key, whatever the transcript
\* (the empty one included), no remote call is made, the record is
\* summarized with a summary that is not empty, the run has no summarize
\* error, and it ends well once the save has returned Ok.
C11_NoCredentialsSummarizes ==
    \A p \in Procs :
        (hist[p].inv["summarize"] > 0 /\ IsNone(args[p].api_key)) =>
            /\ hist[p].kind \notin RemoteCallKinds
            /\ hist[p].kind = "no_credentials"
            /\ record[p].summarized
            /\ IsSome(record[p].summary_content)
            /\ record[p].summary_content[1] # <<>>
            /\ hist[p].result \in {"none", "ok", "err_save", "crashed"}
            /\ ("summarize" \in hist[p].completed /\ hist[p].result # "crashed") =>
                  /\ hist[p].result \in {"none", "ok"}
                  /\ Shows(store, video_id(p), "summarize")
                  /\ StoredRecord(video_id(p)).summary_content = record[p].summary_content

\* C11, witness: a run without credentials has summarized the empty
\* transcript and ended well.
C11_Witness ==
    /\ IsNone(args[1].api_key)
    /\ hist[1].inv["summarize"] = 1
    /\ record[1].transcript_content = Some(<<>>)
    /\ hist[1].result = "ok"
    /\ Shows(store, video_id(1), "summarize")
    /\ StoredRecord(video_id(1)).summary_content = Some(<<"[transcript is empty]">>)

\* A true stage flag has its artifact field.
FlagsHaveArtifacts(rec) ==
    /\ rec.downloaded => IsSome(rec.audio_file)
    /\ rec.transcribed => IsSome(rec.transcript_content)
    /\ rec.summarized => IsSome(rec.summary_content)

\* C12: starting from an absent store, in every record of the store file and
\* in every record a run is about to save, downloaded has audio_file,
\* transcribed has transcript_content and summarized has summary_content.
C12_SavedFlagsHaveArtifacts ==
    origin = "absent" =>
        /\ \A i \in Ids : Has(store, i) => FlagsHaveArtifacts(StoredRecord(i))
        /\ \A p \in Procs :
              pc[p] \in SavePcs =>
                  \A i \in DOMAIN vault[p] : FlagsHaveArtifacts(vault[p][i])

\* C12, witness: from an absent store a record is stored with the three
\* flags and the three artifacts.
C12_Witness ==
    /\ origin = "absent"
    /\ \E i \in Ids :
          /\ Has(store, i)
          /\ Complete(StoredRecord(i))
          /\ hist[1].completed = Stages

\* C13: load_vault returns the empty vault when there is no store file, and
\* the run goes on with a fresh record; it returns an error when the file
\* cannot be parsed, and the run has then ended with that error having
\* created no directory, invoked no adapter and saved nothing: the file is
\* what it was.
C13_CorruptStoreIsLeftAlone ==
    /\ load_vault(AbsentStore) = [ok |-> TRUE, videos |-> EmptyVideos]
    /\ ~load_vault(CorruptStore).ok
    /\ \A p \in Procs :
          pc[p] # "idle" =>
              /\ hist[p].result = "err_load" <=> hist[p].store0.kind = "corrupt"
              /\ hist[p].store0.kind = "absent" =>
                    /\ ~hist[p].known
                    /\ hist[p].loaded =
                          NewRecord(video_id(p), args[p].url, hist[p].loaded.created_at)
                    /\ DOMAIN vault[p] \subseteq {video_id(p)}
              /\ hist[p].result = "err_load" =>
                    /\ pc[p] = "done"
                    /\ store = hist[p].store0
                    /\ store.kind = "corrupt"
                    /\ dirs = hist[p].dirs0
                    /\ \A s \in Stages : hist[p].inv[s] = 0
                    /\ hist[p].saves = 0

\* C13, witness: two runs in a row have failed to load a store file that
\* cannot be parsed; the file is still there and no directory was created.
C13_Witness ==
    /\ origin = "corrupt" /\ runs = 2
    /\ hist[1].result = "err_load"
    /\ store = CorruptStore
    /\ video_id(1) \notin dirs

\* ------------------------------------------- save_vault, then load_vault
\* The well-formed records of the round trip: every optional field absent or
\* present, the texts empty or not, the flags all false or all true.
RoundTripRecords(id) ==
    {[id |-> id, url |-> "u1", title |-> t,
      downloaded |-> b, transcribed |-> b, summarized |-> b,
      audio_file |-> a, transcript_file |-> tf,
      transcript_content |-> tc, summary_content |-> sc,
      created_at |-> get_current_timestamp(Epoch),
      updated_at |-> get_current_timestamp(Epoch + MaxTicks)] :
     b \in BOOLEAN,
     t \in {None, Some("t")},
     a \in {None, Some(<<id, "a.wav">>)},
     tf \in {None, Some(<<id, "a.txt">>)},
     tc \in {None, Some(<<>>), Some(<<"a">>)},
     sc \in {None, Some(<<"r">>)}}

\* The vaults of the round trip: no record, or records under one or both ids.
RoundTripVaults ==
    {EmptyVideos}
    \cup {Insert(EmptyVideos, "id1", r) : r \in RoundTripRecords("id1")}
    \cup {Insert(EmptyVideos, "id2", r) :
            r \in {q \in RoundTripRecords("id2") : q.downloaded /\ IsNone(q.title)}}
    \cup {Insert(Insert(EmptyVideos, "id1", r1), "id2", r2) :
            r1 \in RoundTripRecords("id1"),
            r2 \in {q \in RoundTripRecords("id2") : q.downloaded /\ IsNone(q.title)}}

\* What the store file holds before the save.
RoundTripStores ==
    {AbsentStore, CorruptStore,
     Serialize(Insert(EmptyVideos, "id1", NewRecord("id1", "u1", get_current_timestamp(Epoch))))}

\* Caller 1 holds a vault to save; caller 2 will load.
RoundTripInit ==
    /\ store \in RoundTripStores
    /\ vault \in {[p \in Procs |-> IF p = 1 THEN v ELSE EmptyVideos] : v \in RoundTripVaults}
    /\ files = [i \in Ids |-> {}]
    /\ dirs = {}
    /\ clock = Epoch
    /\ runs = 0
    /\ origin = (IF store.kind = "toml" THEN "given" ELSE store.kind)
    /\ pc = [p \in Procs |-> IF p = 1 THEN "save_vault" ELSE "idle"]
    /\ args = [p \in Procs |-> NoArgs]
    /\ record = [p \in Procs |-> NoRecord]
    /\ hist = [p \in Procs |-> NoHist]

\* save_vault(root, vault[1]), lines 84-94.
SaveVault ==
    /\ pc[1] = "save_vault"
    /\ \E o \in save_vault(store, vault[1]) :
          /\ store' = o.store
          /\ pc' = [pc EXCEPT ![1] = "done"]
          /\ hist' = [hist EXCEPT ![1].result = IF o.ok THEN "ok" ELSE "err_save",
                                  ![1].store0 = store]
    /\ UNCHANGED <<dirs, files, clock, runs, origin, args, vault, record>>

\* load_vault(root) after the save, lines 63-82.
LoadVault ==
    /\ pc[1] = "done" /\ pc[2] = "idle"
    /\ LET ld == load_vault(store)
       IN  /\ vault' = [vault EXCEPT ![2] = ld.videos]
           /\ pc' = [pc EXCEPT ![2] = "done"]
           /\ hist' = [hist EXCEPT ![2].result = IF ld.ok THEN "ok" ELSE "err_load",
                                   ![2].store0 = store]
    /\ UNCHANGED <<store, dirs, files, clock, runs, origin, args, record>>

RoundTripNext == SaveVault \/ LoadVault

RoundTripSpec == RoundTripInit /\ [][RoundTripNext]_vars

\* C14: when save_vault(root, v) has returned Ok and load_vault(root) is
\* called next, it returns Ok with exactly the ids of v and, under each id,
\* a record equal to v's in every field, whatever the store held before.
C14_RoundTrip ==
    (pc[2] = "done" /\ hist[1].result = "ok") =>
        /\ hist[2].result = "ok"
        /\ DOMAIN vault[2] = DOMAIN vault[1]
        /\ \A i \in DOMAIN vault[1] :
              \A k \in RequiredKeys \cup OptionalKeys : vault[2][i][k] = vault[1][i][k]

\* C14, witness: the store held a record under id1; a vault with a record
\* under id2 only, with an empty transcript, a summary and no audio path,
\* was saved and loaded: the loaded vault has that record and id1 is gone.
C14_Witness ==
    /\ pc[2] = "done" /\ hist[1].result = "ok" /\ hist[2].result = "ok"
    /\ Has(hist[1].store0, "id1")
    /\ DOMAIN vault[2] = {"id2"}
    /\ vault[2]["id2"].transcript_content = Some(<<>>)
    /\ IsNone(vault[2]["id2"].audio_file)
    /\ IsSome(vault[2]["id2"].summary_content)

\* What the store st holds of id is still held by the store su: the record
\* is there, every flag st shows is shown, every optional field st has is
\* there with the same value.
Keeps(st, su, id) ==
    Has(st, id) =>
        /\ Has(su, id)
        /\ \A s \in Stages : Shows(st, id, s) => Shows(su, id, s)
        /\ \A k \in OptionalKeys :
              k \in DOMAIN st.videos[id] =>
                  /\ k \in DOMAIN su.videos[id]
                  /\ su.videos[id][k] = st.videos[id][k]

\* C15, second half: when runs are executed one at a time, no step of a run
\* takes a saved record, flag or artifact out of the store.
C15_SequentialRunsLoseNothing ==
    [][\A id \in Ids : Keeps(store, store', id)]_vars

\* C15, first half: run p has saved a stage to a store that still parses,
\* and the store does not hold the record of p: the later save of an
\* overlapping run, which wrote the vault it had loaded at its start, has
\* removed it.
LostUpdate(p) ==
    /\ hist[p].saves > 0
    /\ pc[p] \notin SavePcs
    /\ store.kind = "toml"
    /\ ~Has(store, video_id(p))

C15_NoLostUpdate == \A p \in Procs : ~LostUpdate(p)

\* Run p loaded a record with downloaded true and no audio path, and the
\* item directory holds no audio file.
NoAudioCase(p) ==
    /\ Loaded(p) /\ hist[p].result # "err_mkdir"
    /\ hist[p].known
    /\ hist[p].loaded.downloaded /\ IsNone(hist[p].loaded.audio_file)
    /\ files[video_id(p)] = {}

\* C16: in that case, if the record is not transcribed the run invokes no
\* adapter, saves nothing, leaves the store as it is and ends with the
\* missing-audio error; if the record is transcribed the run has no
\* missing-audio error, invokes neither Download nor Transcribe, and goes on
\* to the Summarize step: Summarize is invoked if the record is not
\* summarized, and the record is returned if it is.
C16_NoAudioFound ==
    \A p \in Procs :
        NoAudioCase(p) =>
            /\ IsNone(hist[p].repaired) /\ IsNone(record[p].audio_file)
            /\ hist[p].inv["download"] = 0 /\ hist[p].inv["transcribe"] = 0
            /\ ~hist[p].loaded.transcribed =>
                  /\ hist[p].inv["summarize"] = 0
                  /\ hist[p].saves = 0 /\ pc[p] \notin SavePcs
                  /\ store = hist[p].store0
                  /\ record[p] = hist[p].loaded
                  /\ pc[p] \notin {"summarize", "ret"}
                  /\ hist[p].result \in {"none", "err_no_audio", "crashed"}
            /\ hist[p].loaded.transcribed =>
                  /\ hist[p].result # "err_no_audio"
                  /\ (pc[p] = "done" /\ hist[p].result # "crashed") =>
                        IF hist[p].loaded.summarized
                        THEN hist[p].result = "ok" /\ hist[p].inv["summarize"] = 0
                        ELSE hist[p].inv["summarize"] = 1

\* C16, witness: such a run on a record not transcribed has ended with the
\* missing-audio error.
C16_Witness ==
    /\ NoAudioCase(1)
    /\ ~hist[1].loaded.transcribed
    /\ hist[1].result = "err_no_audio"

\* C16, the other case: such a run on a transcribed record has summarized it
\* and ended well.
C16_TranscribedGoesOn ==
    /\ NoAudioCase(1)
    /\ hist[1].loaded.transcribed /\ ~hist[1].loaded.summarized
    /\ hist[1].inv["summarize"] = 1
    /\ hist[1].result = "ok"

\* The number a decimal text denotes.
DigitValue(c) == CHOOSE d \in 0 .. 9 : DigitChar(d) = c

RECURSIVE Seconds(_)
Seconds(s) ==
    IF s = <<>> THEN 0
    ELSE Seconds(SubSeq(s, 1, Len(s) - 1)) * 10 + DigitValue(s[Len(s)])

\* C17: a record a run has changed and is about to save carries the time of
\* the change in updated_at; in every stored record updated_at is not before
\* created_at (as numbers of seconds); and whenever the store changes, a
\* record it held keeps its created_at, its updated_at does not decrease,
\* and a record that changed has the time of the change in updated_at.
C17_StampsInState ==
    /\ \A p \in Procs :
          pc[p] \in SavePcs =>
              /\ record[p].updated_at = get_current_timestamp(clock)
              /\ vault[p][video_id(p)] = record[p]
              /\ record[p].created_at = hist[p].loaded.created_at
    /\ \A i \in Ids :
          Has(store, i) =>
              Seconds(StoredRecord(i).updated_at) >= Seconds(StoredRecord(i).created_at)

C17_StampsInStep ==
    \A i \in Ids :
        (Has(store, i) /\ Has(store', i)) =>
            /\ store'.videos[i].created_at = store.videos[i].created_at
            /\ Seconds(store'.videos[i].updated_at) >= Seconds(store.videos[i].updated_at)
            /\ store'.videos[i] # store.videos[i] =>
                  store'.videos[i].updated_at = get_current_timestamp(clock)

C17_Timestamps == []C17_StampsInState /\ [][C17_StampsInStep]_vars

\* C17, witness: a later run has changed a stored record one second after
\* it was created: created_at is still the first reading of the clock,
\* updated_at the next (one digit longer, so smaller as a text).
C17_Witness ==
    /\ runs = 2 /\ hist[1].known /\ hist[1].saves > 0
    /\ Has(store, video_id(1))
    /\ StoredRecord(video_id(1)).created_at = get_current_timestamp(Epoch)
    /\ StoredRecord(video_id(1)).updated_at = get_current_timestamp(Epoch + 1)
    /\ Seconds(StoredRecord(video_id(1)).updated_at)
          = Seconds(StoredRecord(video_id(1)).created_at) + 1

\* C18: with runs one at a time, while and after a run for a URL, every id
\* the store held when the run loaded it is still in the store, the record
\* under every id other than the run's is the one that was loaded, and no
\* record has appeared under another id.
C18_OnlyOwnRecordChanges ==
    \A p \in Procs :
        Loaded(p) =>
            \A i \in Ids :
                /\ Has(hist[p].store0, i) => Has(store, i)
                /\ i # video_id(p) =>
                      /\ Has(store, i) => Has(hist[p].store0, i)
                      /\ Has(hist[p].store0, i) =>
                            store.videos[i] = hist[p].store0.videos[i]

\* C19: starting from an absent store, when a run has returned Ok the record
\* it returned has the three flags (and the three artifacts), and it is the
\* record the store file holds under its id.
C19_SuccessMeansComplete ==
    origin = "absent" =>
        \A p \in Procs :
            hist[p].result = "ok" =>
                /\ IsSome(hist[p].returned)
                /\ hist[p].returned[1] = record[p]
                /\ hist[p].returned[1].downloaded
                /\ hist[p].returned[1].transcribed
                /\ hist[p].returned[1].summarized
                /\ Complete(hist[p].returned[1])
                /\ Has(store, video_id(p))
                /\ StoredRecord(video_id(p)) = hist[p].returned[1]

\* C19, witness: from an absent store a first run stopped after Download and
\* a second run on the same URL has returned Ok.
C19_Witness ==
    /\ origin = "absent" /\ runs = 2
    /\ hist[1].known /\ Rank(hist[1].loaded) = 1
    /\ hist[1].result = "ok"
    /\ hist[1].completed = {"transcribe", "summarize"}

\* The store holds the record of the URL with the three flags.
StoredAllFlags ==
    /\ Has(store, generate_video_id(TheUrl))
    /\ \A s \in Stages : Shows(store, generate_video_id(TheUrl), s)

\* C20: starting from an absent store, with runs one after the other on one
\* URL, saves that succeed and adapters that succeed if tried often enough,
\* the store eventually holds the record with the three flags and holds it
\* from then on; and once it does, no step invokes an adapter or changes
\* the store.
C20_Quiet ==
    StoredAllFlags =>
        /\ store' = store
        /\ \A p \in Procs, s \in Stages : hist'[p].inv[s] <= hist[p].inv[s]

C20_RerunsComplete == <>[]StoredAllFlags /\ [][C20_Quiet]_vars

\* C20, witness: a run that started on the complete stored record has
\* returned it, with no adapter invoked and the store as it was.
C20_Witness ==
    /\ origin = "absent" /\ StoredAllFlags
    /\ hist[1].known /\ Complete(hist[1].loaded)
    /\ hist[1].result = "ok"
    /\ \A s \in Stages : hist[1].inv[s] = 0
    /\ store = hist[1].store0

====
